---- MODULE Spec2Model ----
(***************************************************************************)
(* A model of the corporate-website crawler: UrlFinder.get and the search  *)
(* engines of search_engines.py, and the match functions of crawler.py.    *)
(*                                                                         *)
(* Strings are sequences of one-character strings, so that slicing,        *)
(* lower-casing, splitting and searching are computed as the code computes *)
(* them.  Weights are kept in hundredths (1.0 is Unit): the rule weights   *)
(* of the code (1.0, 0.5, 0.3, 0.1, 0.05) and the fractions of the word    *)
(* lists used here are exact in that unit.                                 *)
(*                                                                         *)
(* Spec follows one call of UrlFinder.get from its entry to its return or  *)
(* to the exception that leaves it.  SpecPreCheck follows the scoring loop *)
(* of get on one candidate drawn from a wider set of URLs.  SpecConc       *)
(* follows two calls of get_results that overlap on one engine instance.   *)
(* SpecScore follows the scoring loop of get one validation rule at a      *)
(* time, SpecBatch the loop of main() over the rows of the input file, and *)
(* SpecFind one call of str_find_all.                                      *)
(***************************************************************************)
EXTENDS Integers, Sequences, FiniteSets, TLC

(***************************************************************************)
(* Python values                                                           *)
(***************************************************************************)
\* None among names (a rule table, a row, an exception, a dict key), and None
\* where a str may stand
None == "None"
NoStr == <<"None">>

\* the hundredths a weight of 1.0 stands for
Unit == 100

UpperAlpha ==
  <<"A","B","C","D","E","F","G","H","I","J","K","L","M",
    "N","O","P","Q","R","S","T","U","V","W","X","Y","Z">>

LowerAlpha ==
  <<"a","b","c","d","e","f","g","h","i","j","k","l","m",
    "n","o","p","q","r","s","t","u","v","w","x","y","z">>

Digits == {"0","1","2","3","4","5","6","7","8","9"}

Range(s) == {s[i] : i \in DOMAIN s}

\* str.lower() on one character
LowerChar(c) ==
  IF \E i \in DOMAIN UpperAlpha : UpperAlpha[i] = c
  THEN LowerAlpha[CHOOSE i \in DOMAIN UpperAlpha : UpperAlpha[i] = c]
  ELSE c

\* str.lower()
Lower(s) == [i \in DOMAIN s |-> LowerChar(s[i])]

\* s[-n:]
LastChars(s, n) ==
  IF Len(s) <= n THEN s ELSE SubSeq(s, Len(s) - n + 1, Len(s))

\* s[i-1:] for a 1-based i
From(s, i) == IF i > Len(s) THEN <<>> ELSE SubSeq(s, i, Len(s))

\* s[i-1:].startswith(p)
StartsAt(p, s, i) ==
  /\ i >= 1
  /\ i + Len(p) - 1 <= Len(s)
  /\ \A k \in DOMAIN p : s[i + k - 1] = p[k]

\* s.find(p) >= 0
Contains(s, p) == \E i \in 1..(Len(s) + 1) : StartsAt(p, s, i)

(***************************************************************************)
(* urllib.parse.urlsplit, its first two fields                             *)
(***************************************************************************)
scheme_chars == Range(UpperAlpha) \cup Range(LowerAlpha) \cup Digits \cup {"+", "-", "."}

\* 1-based index of the first c in s, 0 when there is none
IndexOf(s, c) ==
  IF \E i \in DOMAIN s : s[i] = c
  THEN CHOOSE i \in DOMAIN s : s[i] = c /\ \A j \in 1..(i - 1) : s[j] # c
  ELSE 0

urlsplit(url) ==
  LET i == IndexOf(url, ":")
      hasScheme == i > 1 /\ \A k \in 1..(i - 1) : url[k] \in scheme_chars
      scheme == IF hasScheme THEN Lower(SubSeq(url, 1, i - 1)) ELSE <<>>
      rest == IF hasScheme THEN From(url, i + 1) ELSE url
      hasNetloc == StartsAt(<<"/", "/">>, rest, 1)
      delims == {k \in 3..Len(rest) : rest[k] \in {"/", "?", "#"}}
      delim == IF delims = {} THEN Len(rest) + 1
               ELSE CHOOSE k \in delims : \A m \in delims : k <= m
      netloc == IF hasNetloc THEN SubSeq(rest, 3, delim - 1) ELSE <<>>
  IN  [scheme |-> scheme, netloc |-> netloc]

\* r['link'] == '{}://{}/'.format(*urlsplit(r['link'])[:2])
is_home(link) ==
  LET p == urlsplit(link)
  IN  link = p.scheme \o <<":", "/", "/">> \o p.netloc \o <<"/">>

(***************************************************************************)
(* UrlFinder's exclusion lists and pre-check                               *)
(***************************************************************************)
_exclude_ext ==
  { <<".","j","p","g">>, <<".","p","n","g">>, <<".","p","d","f">>,
    <<".","j","p","e","g">>, <<".","g","i","f">>, <<".","a","v","i">>,
    <<".","m","p","4">>, <<".","m","k","v">>, <<".","m","p","3">>,
    <<".","m","p","g">>, <<".","m","p","e","g">> }

_exclude_dom ==
  { <<"l","i","n","k","e","d","i","n">>, <<"g","l","a","s","s","d","o","o","r">>,
    <<"f","a","c","e","b","o","o","k">>, <<"s","o","c","i","e","t","e">>,
    <<"w","i","k","i","p","e","d","i","a">>, <<"g","o","o","g","l","e">>,
    <<"y","o","u","t","u","b","e">> }

\* re.match('^http.*://.*' + ex + '\..{2,}/*.*$', link): "http" at the start,
\* "://" somewhere after it, then ex and a dot followed by two characters or more
DomainReMatch(ex, link) ==
  /\ StartsAt(<<"h","t","t","p">>, link, 1)
  /\ \E i \in 5..Len(link) :
       /\ StartsAt(<<":", "/", "/">>, link, i)
       /\ \E j \in (i + 3)..Len(link) :
            /\ StartsAt(ex \o <<".">>, link, j)
            /\ Len(link) - (j + Len(ex)) >= 2

\* self._exclude_re.match(link)
_exclude_re(link) == \E ex \in _exclude_dom : DomainReMatch(ex, link)

(***************************************************************************)
(* Text normalisation and the match functions of crawler.py                *)
(***************************************************************************)
Whitespace == {" "}

\* the characters with a diacritical sign used here, and their base letters
Accented == {"e-acute", "u-umlaut"}

\* unicodedata.normalize('NFD', c) without its combining marks (category Mn)
StripChar(c) ==
  CASE c = "e-acute" -> "e"
    [] c = "u-umlaut" -> "u"
    [] OTHER -> c

\* UrlFinder.strip_accents
strip_accents(s) == [i \in DOMAIN s |-> StripChar(s[i])]

\* q.replace(c, '') for every c of chars
RemoveChars(s, chars) == SelectSeq(s, LAMBDA c : c \notin chars)

\* str.strip(): from the first to the last character that is no whitespace
strip(s) ==
  LET keep == {i \in DOMAIN s : s[i] \notin Whitespace}
  IN  IF keep = {} THEN <<>>
      ELSE SubSeq(s, CHOOSE i \in keep : \A j \in keep : i <= j,
                     CHOOSE i \in keep : \A j \in keep : i >= j)

\* SearchEngine.filter_query_string() with its default chars, applied to q
filter_query_string(q) == strip(RemoveChars(q, {"'", "\"", ",", ":", ";"}))

\* the pieces of s between the characters of seps, empty pieces included
SplitOn(s, seps) ==
  LET at == {i \in DOMAIN s : s[i] \in seps}
      n == Cardinality(at)
      \* the position of the k-th separator; 0 and Len(s) + 1 stand at the ends
      pos(k) == IF k = 0 THEN 0
                ELSE IF k = n + 1 THEN Len(s) + 1
                ELSE CHOOSE i \in at : Cardinality({j \in at : j < i}) = k - 1
  IN  [k \in 1..(n + 1) |-> SubSeq(s, pos(k - 1) + 1, pos(k) - 1)]

\* str.split(): the non-empty runs between whitespace
split(s) == SelectSeq(SplitOn(s, Whitespace), LAMBDA w : w # <<>>)

\* words_filter(s, num_chr)
words_filter_n(s, num_chr) ==
  LET ws == SelectSeq(split(filter_query_string(s)),
                      LAMBDA w : num_chr = 0 \/ Len(w) > num_chr)
  IN  [i \in DOMAIN ws |-> strip_accents(ws[i])]

\* the default num_chr of words_filter
num_chr_default == 2

words_filter(s) == words_filter_n(s, num_chr_default)

\* str_filter
str_filter(s) == strip_accents(strip(s))

\* \w of the re module on str patterns
IsWordChar(c) ==
  c \in Range(UpperAlpha) \cup Range(LowerAlpha) \cup Digits \cup Accented \cup {"_"}

\* \b between s[p] and s[p+1] (p = 0 is the start, p = Len(s) the end)
WordBoundary(s, p) ==
  LET before == p >= 1 /\ IsWordChar(s[p])
      after == p + 1 <= Len(s) /\ IsWordChar(s[p + 1])
  IN  before # after

\* one pattern character against one text character under re.IGNORECASE;
\* "." is the only metacharacter of the strings used here
ReCharMatch(p, c) == p = "." \/ LowerChar(p) = LowerChar(c)

\* the pattern pat matches s from position i on
ReMatchAt(pat, s, i) ==
  /\ i + Len(pat) - 1 <= Len(s)
  /\ \A k \in DOMAIN pat : ReCharMatch(pat[k], s[i + k - 1])

\* bool(re.search(pat, s, re.IGNORECASE))
re_search(pat, s) == \E i \in 1..(Len(s) + 1) : ReMatchAt(pat, s, i)

\* bool(re.search(r'\b{}\b'.format(w), s, re.IGNORECASE))
re_search_word(w, s) ==
  \E i \in 1..(Len(s) + 1) :
    /\ WordBoundary(s, i - 1)
    /\ ReMatchAt(w, s, i)
    /\ WordBoundary(s, i - 1 + Len(w))

\* the value of a match function as a fraction num/den; den = 0 is the
\* division by zero of f / len(words)
Bool(b) == [num |-> IF b THEN 1 ELSE 0, den |-> 1]

\* words_find: f / len(words)
words_find(s, words) ==
  [num |-> Cardinality({i \in DOMAIN words : re_search_word(words[i], s)}),
   den |-> Len(words)]

\* words_find_all: words_find(s, words) >= 1
words_find_all(s, words) ==
  LET f == words_find(s, words)
  IN  IF f.den = 0 THEN f ELSE Bool(f.num >= f.den)

\* sentence_find: the number of pieces of re.split(r'[\.!?]', s) holding all words
sentence_find(s, words) ==
  LET pieces == SplitOn(s, {".", "!", "?"})
      hits == {i \in DOMAIN pieces : words_find_all(strip(pieces[i]), words).num = 1}
  IN  IF words = <<>> THEN [num |-> 0, den |-> 0]
      ELSE [num |-> Cardinality(hits), den |-> 1]

\* str_find_all: bool(s2 and re.search(strip_accents(s2), s, re.IGNORECASE))
str_find_all(s, s2) == Bool(s2 # <<>> /\ re_search(strip_accents(s2), s))

\* str_find: s.find(s2) >= 0
str_find(s, s2) == Bool(Contains(s, s2))

(***************************************************************************)
(* The validation rules of main() and the scoring of one fetched page      *)
(***************************************************************************)
Rule(str_f, str_p, weight, content_p) ==
  [str_f |-> str_f, str_p |-> str_p, weight |-> weight, content_p |-> content_p]

\* the dict proc of main(), in insertion order; weights in hundredths
proc_main ==
  << [k |-> "name", v |->
       << Rule("str_filter",   "str_find_all",   100, "html_title"),
          Rule("words_filter", "words_find_all",  30, "html_title"),
          Rule("words_filter", "words_find",      10, "html_title"),
          Rule("str_filter",   "str_find_all",   100, "meta_description"),
          Rule("words_filter", "words_find_all",  30, "meta_description"),
          Rule("words_filter", "words_find",      10, "meta_description"),
          Rule("str.strip",    "str_find_all",   100, "h1_text"),
          Rule("words_filter", "words_find_all",  30, "h1_text"),
          Rule("words_filter", "words_find",      10, "h1_text"),
          Rule("str_filter",   "str_find_all",   100, "body_text"),
          Rule("words_filter", "sentence_find",   50, "body_text") >>],
     [k |-> "city", v |->
       << Rule("str_filter",   "str_find_all",    10, "html_title"),
          Rule("str_filter",   "str_find_all",    10, "meta_description"),
          Rule("str_filter",   "str_find_all",     5, "body_text") >>],
     [k |-> "country", v |->
       << Rule("str_filter",   "str_find_all",    10, "html_title"),
          Rule("str_filter",   "str_find_all",    10, "meta_description"),
          Rule("str_filter",   "str_find_all",     5, "body_text") >>],
     [k |-> "phone", v |->
       << Rule("str_filter",   "str_find",       100, "html_title"),
          Rule("str_filter",   "str_find",        50, "meta_description"),
          Rule("str_filter",   "str_find",        10, "body_text") >>],
     [k |-> "postcode", v |->
       << Rule("str_filter",   "str_find",        10, "body_text") >>],
     [k |-> "street_line_1", v |->
       << Rule("str_filter",   "str_find_all",    50, "body_text") >>] >>

\* A dict is the sequence of its items [k, v], in insertion order.
HasKey(d, key) == \E n \in DOMAIN d : d[n].k = key

\* d.get(key)
DictGet(d, key) ==
  IF HasKey(d, key) THEN d[CHOOSE n \in DOMAIN d : d[n].k = key].v ELSE NoStr

\* d[key] = val
DictSet(d, key, val) ==
  IF HasKey(d, key) THEN [n \in DOMAIN d |-> IF d[n].k = key THEN [k |-> key, v |-> val] ELSE d[n]]
  ELSE Append(d, [k |-> key, v |-> val])


\* s[Len(s)], ..., s[1]
Reverse(s) == [n \in DOMAIN s |-> s[Len(s) + 1 - n]]

\* the dict proc of main() with the rules of each field written in the
\* opposite order
proc_rev == [f \in DOMAIN proc_main |-> [k |-> proc_main[f].k, v |-> Reverse(proc_main[f].v)]]

\* the rule tables, by name
ProcessorsOf(id) ==
  CASE id = "proc" -> proc_main
    [] id = "proc_rev" -> proc_rev

\* str_f(p_str) if callable(str_f) else p_str
ApplyFilter(str_f, p_str) ==
  CASE str_f = "str_filter" -> str_filter(p_str)
    [] str_f = "words_filter" -> words_filter(p_str)
    [] str_f = "str.strip" -> strip(p_str)
    [] OTHER -> p_str

\* str_p(text, p_str_filtered)
ApplyMatch(str_p, text, q) ==
  CASE str_p = "str_find_all" -> str_find_all(text, q)
    [] str_p = "words_find_all" -> words_find_all(text, q)
    [] str_p = "words_find" -> words_find(text, q)
    [] str_p = "sentence_find" -> sentence_find(text, q)
    [] str_p = "str_find" -> str_find(text, q)

\* the (p_str, rule) pairs the two nested loops of get visit, in order: the
\* fields of the rule table whose value in the row params is not None
FlatRules(processors, row) ==
  LET here(p) ==
        LET p_str == DictGet(row, p.k)
        IN  IF p_str = NoStr THEN <<>>
            ELSE [n \in DOMAIN p.v |-> [p_str |-> p_str, rule |-> p.v[n]]]
      upto[i \in 0..Len(processors)] ==
        IF i = 0 THEN <<>> ELSE upto[i - 1] \o here(processors[i])
  IN  upto[Len(processors)]

\* a variant of ScoreRule: `w = ...` for `w += ...` at line 508, which keeps
\* the product of the last rule only
ScoreRule_lastOnly(acc, pair, page) ==
  LET rule == pair.rule
      p_str_filtered == ApplyFilter(rule.str_f, pair.p_str)
      cached == DictGet(acc.content, rule.content_p)
      text == IF cached = NoStr THEN strip_accents(page[rule.content_p]) ELSE cached
      content == IF cached = NoStr THEN DictSet(acc.content, rule.content_p, text)
                 ELSE acc.content
      extracted == IF cached = NoStr THEN Append(acc.extracted, rule.content_p)
                   ELSE acc.extracted
      m == ApplyMatch(rule.str_p, text, p_str_filtered)
  IN  IF m.den = 0
      THEN [acc EXCEPT !.content = content, !.extracted = extracted,
                       !.exc = "ZeroDivisionError"]
      ELSE [w |-> (m.num * rule.weight) \div m.den,
            content |-> content, extracted |-> extracted, exc |-> None]

\* lines 492-508 for one rule; acc holds the weight w, the dict content
\* (selector -> text), the selectors extracted so far and the exception raised
ScoreRule(acc, pair, page) ==
  LET rule == pair.rule
      p_str_filtered == ApplyFilter(rule.str_f, pair.p_str)
      cached == DictGet(acc.content, rule.content_p)
      text == IF cached = NoStr THEN strip_accents(page[rule.content_p]) ELSE cached
      content == IF cached = NoStr THEN DictSet(acc.content, rule.content_p, text)
                 ELSE acc.content
      extracted == IF cached = NoStr THEN Append(acc.extracted, rule.content_p)
                   ELSE acc.extracted
      m == ApplyMatch(rule.str_p, text, p_str_filtered)
  IN  IF m.den = 0
      THEN [acc EXCEPT !.content = content, !.extracted = extracted,
                       !.exc = "ZeroDivisionError"]
      ELSE [w |-> acc.w + (m.num * rule.weight) \div m.den,
            content |-> content, extracted |-> extracted, exc |-> None]

\* the rules in order, until one raises
ScoreRules(pairs, page, acc) ==
  LET after[i \in 0..Len(pairs)] ==
        IF i = 0 THEN acc
        ELSE LET before == after[i - 1]
             IN  IF before.exc # None THEN before ELSE ScoreRule(before, pairs[i], page)
  IN  after[Len(pairs)]

\* lines 472-508 for a page fetched without error, starting from weight w
ScorePage(processors, row, page, w) ==
  ScoreRules(FlatRules(processors, row), page,
             [w |-> w, content |-> <<[k |-> None, v |-> page.html]>>,
              extracted |-> <<>>, exc |-> None])

(***************************************************************************)
(* The inputs: search results, attributes, pages                           *)
(***************************************************************************)
\* "http://a.co/", "http://google.co/x"
U_home == <<"h","t","t","p",":","/","/","a",".","c","o","/">>
U_social == <<"h","t","t","p",":","/","/","g","o","o","g","l","e",".","c","o","/","x">>

Result(link, title) == [link |-> link, title |-> title, descr |-> <<>>]

\* the entries a search engine may return: a home page under two titles, and a
\* page below the root of a social network
Results ==
  { Result(U_home, <<"A">>), Result(U_home, <<"B">>), Result(U_social, <<"A">>) }

Links == {r.link : r \in Results}

\* "http://", "https://", "a.co"
Http == <<"h","t","t","p",":","/","/">>
Https == <<"h","t","t","p","s",":","/","/">>
Host_a == <<"a",".","c","o">>

\* http://a.co/<path>
Under_a(path) == Http \o Host_a \o <<"/">> \o path

\* the URLs the pre-check is tried on: the root of a site written with and
\* without its slash, pages below it, files whose names end in an extension of
\* three and of four letters in both cases, names that only resemble one, and
\* sites of the domain list with and without a host name before the domain
PreCheckLinks ==
  { U_home,
    Http \o Host_a,
    Under_a(<<"x">>),
    Under_a(<<"?","q">>),
    Under_a(<<"f",".","p","d","f">>),
    Under_a(<<"f",".","P","D","F">>),
    Under_a(<<"f",".","j","p","e","g">>),
    Under_a(<<"f",".","J","p","e","g">>),
    Under_a(<<"f",".","m","p","4">>),
    Under_a(<<"p","d","f">>),
    Under_a(<<"f",".","p","d","f","x">>),
    Http \o <<"l","i","n","k","e","d","i","n",".","c","o","m","/">>,
    Https \o <<"w","w","w",".","y","o","u","t","u","b","e",".","c","o","m","/">>,
    Http \o <<"w","i","k","i","p","e","d","i","a",".","o","r","g","/","x">>,
    Http \o <<"l","i","n","k","e","d","i","n","x",".","c","o","m","/">>,
    U_social }

\* the longest list one engine returns
MaxRes == 2

\* the sequences over S of length n at most
SeqsUpTo(S, n) == UNION {[1..m -> S] : m \in 0..n}

\* "Acme Inc", "Rome", "3M"
S_acme_inc == <<"A","c","m","e"," ","I","n","c">>
S_rome == <<"R","o","m","e">>
S_3m == <<"3","M">>

\* the rows passed as params: a company with name and city, a company whose
\* name has no word longer than two characters, and a row with a city, no name
\* and a column the rule table does not have
ParamsOf(id) ==
  CASE id = "ParamsFull" -> <<[k |-> "name", v |-> S_acme_inc], [k |-> "city", v |-> S_rome]>>
    [] id = "ParamsShort" -> <<[k |-> "name", v |-> S_3m]>>
    [] id = "ParamsCity" -> <<[k |-> "id", v |-> <<"7">>], [k |-> "city", v |-> S_rome]>>

\* the pages a candidate URL may serve, by selector (html is the raw markup)
PageOf(id) ==
  CASE id = "pgMatch" ->
         [html |-> <<"<">>,
          html_title |-> <<"A","c","m","e-acute"," ","I","n","c">>,
          meta_description |-> <<>>,
          h1_text |-> <<"A","C","M","E">>,
          body_text |-> <<"A","c","m","e"," ","i","n","c",".",
                          " ","R","o","m","e",".">>]
    [] id = "pgCity" ->
         [html |-> <<"<">>, html_title |-> <<>>, meta_description |-> <<>>,
          h1_text |-> <<>>, body_text |-> <<"R","o","m","e">>]

Pages == {"pgMatch", "pgCity"}

ParamNames == {"ParamsFull", "ParamsShort"}

(***************************************************************************)
(* The search engines                                                      *)
(***************************************************************************)
\* the instances passed to UrlFinder, in order
_engines == <<"GoogleCustomSearch", "GoogleSearch">>

\* what a request to the engine's BASE_URL may bring: a body that parses into
\* items, no connection, a body that is no JSON (structured API only), a body
\* whose shape makes the parsing code raise
Responses(engine) ==
  {[kind |-> "ok", items |-> q] : q \in SeqsUpTo(Results, MaxRes)}
    \cup {[kind |-> "ConnectionError", items |-> <<>>]}
    \cup {[kind |-> "malformed", items |-> <<>>]}
    \cup (IF engine = "GoogleCustomSearch"
          THEN {[kind |-> "JSONDecodeError", items |-> <<>>]} ELSE {})

\* e.results(): the list parsed from the body stored in e._content, or the
\* exception that leaves it.  JSONDecodeError is caught by
\* GoogleCustomSearch.results; any other exception of the parsing code leaves
engine_results(engine, content) ==
  CASE content.kind = "ok" -> [raised |-> FALSE, value |-> content.items]
    [] content.kind = "JSONDecodeError" -> [raised |-> FALSE, value |-> <<>>]
    [] content.kind = "malformed" -> [raised |-> TRUE, value |-> <<>>]

\* e.get_results(query) run alone: self.get() stores the body of the response,
\* self.results() parses it; ConnectionError is caught by both engines
get_results(engine, resp) ==
  IF resp.kind = "ConnectionError" THEN [raised |-> FALSE, value |-> <<>>]
  ELSE engine_results(engine, resp)

\* r not in results
NotIn(r, sofar) == \A k \in DOMAIN sofar : sofar[k] # r

RECURSIVE MergeResults(_, _)
\* for r in res: if r not in results: results.append(r)
MergeResults(sofar, rs) ==
  IF rs = <<>> THEN sofar
  ELSE MergeResults(IF NotIn(Head(rs), sofar) THEN Append(sofar, Head(rs)) ELSE sofar,
                    Tail(rs))

(***************************************************************************)
(* UrlFinder.get                                                           *)
(***************************************************************************)
\* a variant of Excluded: the two slices compared without .lower()
Excluded_caseSensitive(link, skip_social, home_only) ==
  \/ LastChars(link, 4) \in _exclude_ext
  \/ LastChars(link, 5) \in _exclude_ext
  \/ (skip_social /\ _exclude_re(link))
  \/ (home_only /\ ~is_home(link))

\* the condition of lines 456-458
Excluded(link, skip_social, home_only) ==
  \/ Lower(LastChars(link, 4)) \in _exclude_ext
  \/ Lower(LastChars(link, 5)) \in _exclude_ext
  \/ (skip_social /\ _exclude_re(link))
  \/ (home_only /\ ~is_home(link))

\* int(is_home) * self._home_weight
InitialWeight(link, home_weight) == IF is_home(link) THEN home_weight ELSE 0

RECURSIVE InsertDesc(_, _, _)
\* the place of index k among the indices already sorted: after every index
\* whose weight is not smaller (the sort is stable, also with reverse=True)
InsertDesc(sorted, k, ws) ==
  IF sorted = <<>> THEN <<k>>
  ELSE IF ws[Head(sorted)] >= ws[k] THEN <<Head(sorted)>> \o InsertDesc(Tail(sorted), k, ws)
  ELSE <<k>> \o sorted

RECURSIVE SortedFrom(_, _, _)
SortedFrom(sorted, k, ws) ==
  IF k > Len(ws) THEN sorted ELSE SortedFrom(InsertDesc(sorted, k, ws), k + 1, ws)

\* a variant of SortedDesc: the indices of sorted(...)[::-1], where candidates of
\* equal weight come in the reverse of their order
SortedDesc_reversed(ws) ==
  LET before(j, k) == ws[j] > ws[k] \/ (ws[j] = ws[k] /\ j > k)
  IN  [p \in DOMAIN ws |->
         CHOOSE k \in DOMAIN ws : Cardinality({j \in DOMAIN ws : before(j, k)}) = p - 1]

\* the indices of sorted(enumerate(weights), key=lambda x: x[1], reverse=True)
SortedDesc(ws) == SortedFrom(<<>>, 1, ws)

\* a variant of MeetsThreshold: weights[idx] > self._threshold
MeetsThreshold_strict(w, threshold) == w > threshold

\* weights[idx] >= self._threshold
MeetsThreshold(w, threshold) == w >= threshold

\* a variant of Selected: the sort without reverse=True, whose first element is
\* the first candidate of the lowest weight
Selected_ascending(rs, ws, threshold) ==
  IF ws # <<>>
  THEN LET idx0 == CHOOSE i \in DOMAIN ws :
                     /\ \A j \in DOMAIN ws : ws[i] <= ws[j]
                     /\ \A j \in 1..(i - 1) : ws[j] # ws[i]
       IN  [idx |-> idx0,
            ret |-> IF MeetsThreshold(ws[idx0], threshold) THEN rs[idx0].link ELSE NoStr]
  ELSE [idx |-> 0, ret |-> NoStr]

\* lines 518-524: the index chosen (0 when there is no weight) and the value
\* get returns
Selected(rs, ws, threshold) ==
  IF ws # <<>>
  THEN LET idx0 == SortedDesc(ws)[1]
       IN  [idx |-> idx0,
            ret |-> IF MeetsThreshold(ws[idx0], threshold) THEN rs[idx0].link ELSE NoStr]
  ELSE [idx |-> 0, ret |-> NoStr]

VARIABLES
  _processors,   \* the rule table (its name), or None; __init__ reads it from
                 \* the name procs while its parameter is spelt proc (line 402):
                 \* the field is taken to hold the table passed, as documented
  _skip_social,
  _home_weight,
  _home_only,
  _threshold,
  params,        \* the argument of get: the row (its name), or None
  pc,            \* where get is: "engines", "scoring", "done", "raised"
  engine_log,    \* what each engine queried so far answered
  res,           \* the list the last get_results returned
  results,       \* the candidates collected
  weights,       \* one weight for each candidate examined
  fetched,       \* for each candidate examined, what its examination did
  idx,           \* the index chosen at line 518 (1-based), 0 before
  exc,           \* the exception that left get, or None
  ret,           \* the value get returned
  _content,      \* the attribute _content of the one GoogleSearch instance
  calls          \* the calls of get_results running on that instance

config == <<_processors, _skip_social, _home_weight, _home_only, _threshold, params>>

\* the variables of one call of UrlFinder.get
getvars == <<config, pc, engine_log, res, results, weights, fetched, idx, exc, ret>>

\* the variables of the calls sharing one engine
enginevars == <<_content, calls>>

\* the variables of main() of crawler.py
VARIABLES
  start,         \* the sum of the values given with -s, 0 without
  limit,         \* the value given with -l, 0 without
  update,        \* TRUE when -u was given
  samples,       \* the rows of the input file
  i_main,        \* the counter i of line 238
  fo,            \* the rows written to the output file
  finds,         \* the positions of the rows passed to u.get, in order
  bpc            \* where main is: "idle", "loop", "closed", "raised"

batchvars == <<start, limit, update, samples, i_main, fo, finds, bpc>>

\* the scoring of the page of one candidate, lines 471-508
VARIABLES
  sc             \* the page downloaded (its name) or None, the weight w and the
                 \* dict content, the number of rules applied

\* one call of a match function of crawler.py
VARIABLES
  sf             \* the arguments s and s2, whether the call has returned, and
                 \* the value returned

vars == <<getvars, enginevars, batchvars, sc, sf>>

\* the thresholds tried: -1, that of main() (0.05), the default (0.3)
Thresholds == {0 - Unit, 5, 30}

\* the home weights tried: that of main() (0.0) and the default (1)
HomeWeights == {0, Unit}

\* The pure functions above over the inputs of the model, computed once.
ExcludedTable ==
  {<<l, s, h, Excluded(l, s, h)>> : l \in Links \cup PreCheckLinks, s \in BOOLEAN, h \in BOOLEAN}

ExcludedOf(l, s, h) == (CHOOSE t \in ExcludedTable : t[1] = l /\ t[2] = s /\ t[3] = h)[4]

InitialWeightTable ==
  {<<l, hw, InitialWeight(l, hw)>> : l \in Links \cup PreCheckLinks, hw \in HomeWeights}

InitialWeightOf(l, hw) == (CHOOSE t \in InitialWeightTable : t[1] = l /\ t[2] = hw)[3]

ScorePageTable ==
  {<<id, p, w, ScorePage(ProcessorsOf("proc"), ParamsOf(p), PageOf(id), w)>> :
     id \in Pages, p \in ParamNames, w \in HomeWeights}

ScorePageOf(id, p, w) == (CHOOSE t \in ScorePageTable : t[1] = id /\ t[2] = p /\ t[3] = w)[4]

ResponsesTable == {<<en, Responses(en)>> : en \in Range(_engines)}

ResponsesOf(en) == (CHOOSE t \in ResponsesTable : t[1] = en)[2]

\* the constructor's arguments and the argument params of get
InitConfig ==
  /\ _processors \in {None, "proc"}
  /\ params \in {None, "ParamsFull", "ParamsShort"}
  /\ (_processors = None => params = "ParamsFull")
  /\ _skip_social \in BOOLEAN
  /\ _home_only \in BOOLEAN
  /\ _home_weight \in HomeWeights
  /\ _threshold \in Thresholds

\* _content before the first request
Unset == [kind |-> "unset", items |-> <<>>]

Callers == {"call1", "call2"}

\* no match function is being called on its own
NoFind == sf = [s |-> <<>>, s2 |-> <<>>, done |-> FALSE, out |-> FALSE]

\* no page is being scored
NoScoring ==
  sc = [id |-> None, done |-> 0,
        acc |-> [w |-> 0, content |-> <<>>, extracted |-> <<>>, exc |-> None]]

\* main() is not running
NoBatch ==
  /\ start = 0 /\ limit = 0 /\ update = FALSE
  /\ samples = <<>> /\ i_main = 1 /\ fo = <<>> /\ finds = <<>>
  /\ bpc = "idle"

NoCalls == [t \in Callers |-> [pc |-> "idle", resp |-> Unset,
                               out |-> [raised |-> FALSE, value |-> <<>>]]]

Init ==
  /\ InitConfig
  /\ pc = "engines"
  /\ engine_log = <<>>
  /\ res = <<>>
  /\ results = <<>>
  /\ weights = <<>>
  /\ fetched = <<>>
  /\ idx = 0
  /\ exc = None
  /\ ret = NoStr
  /\ _content = Unset
  /\ calls = NoCalls
  /\ NoBatch
  /\ NoScoring
  /\ NoFind

\* a variant of GetResults: the loop without its try/except, where an exception
\* of get_results leaves get
GetResults_uncaught ==
  /\ pc = "engines"
  /\ Len(engine_log) < Len(_engines)
  /\ LET engine == _engines[Len(engine_log) + 1]
     IN  \E resp \in ResponsesOf(engine) :
           LET out == get_results(engine, resp)
           IN  /\ engine_log' = Append(engine_log, resp.kind)
               /\ res' = IF out.raised THEN res ELSE out.value
               /\ results' = IF out.raised THEN results
                             ELSE MergeResults(results, out.value)
               /\ pc' = IF out.raised THEN "raised" ELSE pc
               /\ exc' = IF out.raised THEN "Exception" ELSE exc
  /\ UNCHANGED <<config, weights, fetched, idx, ret, enginevars, batchvars, sc, sf>>

\* one round of the loop of lines 434-444
GetResults ==
  /\ pc = "engines"
  /\ Len(engine_log) < Len(_engines)
  /\ LET engine == _engines[Len(engine_log) + 1]
     IN  \E resp \in ResponsesOf(engine) :
           LET out == get_results(engine, resp)
           IN  /\ engine_log' = Append(engine_log, resp.kind)
               /\ res' = IF out.raised THEN res ELSE out.value
               /\ results' = IF out.raised THEN results
                             ELSE MergeResults(results, out.value)
  /\ UNCHANGED <<config, pc, weights, fetched, idx, exc, ret, enginevars, batchvars, sc, sf>>

\* line 446, after the last engine; res is not read again
BeginScoring ==
  /\ pc = "engines"
  /\ Len(engine_log) = Len(_engines)
  /\ pc' = "scoring"
  /\ weights' = <<>>
  /\ res' = <<>>
  /\ UNCHANGED <<config, engine_log, results, fetched, idx, exc, ret, enginevars, batchvars, sc, sf>>

\* the candidate the loop of line 449 is at
Current == results[Len(weights) + 1]

InLoop == pc = "scoring" /\ Len(weights) < Len(results)

CurrentExcluded == ExcludedOf(Current.link, _skip_social, _home_only)

\* lines 456-462: the pre-check excludes the candidate
Exclude ==
  /\ InLoop
  /\ CurrentExcluded
  /\ weights' = Append(weights, 0 - Unit)
  /\ fetched' = Append(fetched, "excluded")
  /\ UNCHANGED <<config, pc, engine_log, res, results, idx, exc, ret, enginevars, batchvars, sc, sf>>

\* lines 466-469, 515: no rule table or no attributes, nothing is downloaded
NoFetch ==
  /\ InLoop
  /\ ~CurrentExcluded
  /\ (_processors = None \/ params = None)
  /\ weights' = Append(weights, InitialWeightOf(Current.link, _home_weight))
  /\ fetched' = Append(fetched, "nofetch")
  /\ UNCHANGED <<config, pc, engine_log, res, results, idx, exc, ret, enginevars, batchvars, sc, sf>>

\* a variant of FetchFail: the handler without `w = -1`, which keeps the weight
\* of line 466
FetchFail_keepsWeight ==
  /\ InLoop
  /\ ~CurrentExcluded
  /\ _processors # None /\ params # None
  /\ weights' = Append(weights, InitialWeightOf(Current.link, _home_weight))
  /\ fetched' = Append(fetched, "ConnectionError")
  /\ UNCHANGED <<config, pc, engine_log, res, results, idx, exc, ret, enginevars, batchvars, sc, sf>>

\* lines 471, 510-515: requests.get raises ConnectionError
FetchFail ==
  /\ InLoop
  /\ ~CurrentExcluded
  /\ _processors # None /\ params # None
  /\ weights' = Append(weights, 0 - Unit)
  /\ fetched' = Append(fetched, "ConnectionError")
  /\ UNCHANGED <<config, pc, engine_log, res, results, idx, exc, ret, enginevars, batchvars, sc, sf>>

\* lines 471-508, 515: the page is downloaded and the rules are applied; an
\* exception other than ConnectionError leaves get
FetchScore ==
  /\ InLoop
  /\ ~CurrentExcluded
  /\ _processors # None /\ params # None
  /\ \E id \in Pages :
       LET acc == ScorePageOf(id, params, InitialWeightOf(Current.link, _home_weight))
       IN  /\ fetched' = Append(fetched, id)
           /\ IF acc.exc = None
              THEN /\ weights' = Append(weights, acc.w)
                   /\ UNCHANGED <<pc, exc>>
              ELSE /\ pc' = "raised"
                   /\ exc' = acc.exc
                   /\ UNCHANGED weights
  /\ UNCHANGED <<config, engine_log, res, results, idx, ret, enginevars, batchvars, sc, sf>>

\* lines 518-524
Return ==
  /\ pc = "scoring"
  /\ Len(weights) = Len(results)
  /\ LET sel == Selected(results, weights, _threshold)
     IN  idx' = sel.idx /\ ret' = sel.ret
  /\ pc' = "done"
  /\ UNCHANGED <<config, engine_log, res, results, weights, fetched, exc, enginevars, batchvars, sc, sf>>

Next ==
  GetResults \/ BeginScoring \/ Exclude \/ NoFetch \/ FetchFail \/ FetchScore \/ Return

Spec == Init /\ [][Next]_vars

(***************************************************************************)
(* Calls of get_results that overlap on one engine instance                *)
(***************************************************************************)
\* the instance the calls share
SharedEngine == _engines[2]

\* both calls are about to send their request; no call of UrlFinder.get is
\* followed here beyond its call of get_results
InitConc ==
  /\ _processors = "proc" /\ params = "ParamsFull"
  /\ _skip_social = TRUE /\ _home_only = TRUE
  /\ _home_weight = 0 /\ _threshold = 5
  /\ pc = "engines"
  /\ engine_log = <<>>
  /\ res = <<>>
  /\ results = <<>>
  /\ weights = <<>>
  /\ fetched = <<>>
  /\ idx = 0
  /\ exc = None
  /\ ret = NoStr
  /\ _content = Unset
  /\ calls = [t \in Callers |-> [NoCalls[t] EXCEPT !.pc = "get"]]
  /\ NoBatch
  /\ NoScoring
  /\ NoFind

\* SearchEngine.get in call t: the body of the response is stored in
\* self._content; a ConnectionError leaves get and get_results returns []
EngineGet(t) ==
  /\ calls[t].pc = "get"
  /\ \E resp \in ResponsesOf(SharedEngine) :
       IF resp.kind = "ConnectionError"
       THEN /\ calls' = [calls EXCEPT ![t] = [pc |-> "done", resp |-> resp,
                                              out |-> [raised |-> FALSE, value |-> <<>>]]]
            /\ UNCHANGED _content
       ELSE /\ _content' = resp
            /\ calls' = [calls EXCEPT ![t].pc = "results", ![t].resp = resp]
  /\ UNCHANGED <<getvars, batchvars, sc, sf>>

\* self.results() in call t: what self._content holds now is parsed
EngineResults(t) ==
  /\ calls[t].pc = "results"
  /\ calls' = [calls EXCEPT ![t].pc = "done",
                            ![t].out = engine_results(SharedEngine, _content)]
  /\ UNCHANGED <<_content, getvars, batchvars, sc, sf>>

NextConc == \E t \in Callers : EngineGet(t) \/ EngineResults(t)

SpecConc == InitConc /\ [][NextConc]_vars

(***************************************************************************)
(* The scoring loop on one candidate of a wider set of URLs                *)
(***************************************************************************)
\* get at line 446 after the first engine returned one result and the second
\* returned none
InitPreCheck ==
  /\ InitConfig
  /\ pc = "scoring"
  /\ engine_log = <<"ok", "ConnectionError">>
  /\ res = <<>>
  /\ results \in {<<Result(l, <<"A">>)>> : l \in PreCheckLinks}
  /\ weights = <<>>
  /\ fetched = <<>>
  /\ idx = 0
  /\ exc = None
  /\ ret = NoStr
  /\ _content = Unset
  /\ calls = NoCalls
  /\ NoBatch
  /\ NoScoring
  /\ NoFind

NextPreCheck == Exclude \/ NoFetch \/ FetchFail \/ FetchScore \/ Return

SpecPreCheck == InitPreCheck /\ [][NextPreCheck]_vars

(***************************************************************************)
(* The scoring loop, one validation rule at a time                         *)
(***************************************************************************)
\* the rule tables and the rows the scoring is followed on
ScoreTables == {"proc", "proc_rev"}

ScoreRows == {"ParamsFull", "ParamsShort", "ParamsCity"}

\* the candidates: a home page and a page below the root of the same site
ScoreCandidates == {Result(U_home, <<"A">>), Result(Under_a(<<"x">>), <<"A">>)}

\* the rules the loops of lines 480-492 visit for a table and a row
PairsTable == {<<t, p, FlatRules(ProcessorsOf(t), ParamsOf(p))>> : t \in ScoreTables, p \in ScoreRows}

PairsOf(t, p) == (CHOOSE x \in PairsTable : x[1] = t /\ x[2] = p)[3]

\* get at line 446 with one to MaxRes candidates, none of which the pre-check
\* excludes
InitScore ==
  /\ _processors \in ScoreTables
  /\ params \in ScoreRows
  /\ _skip_social = TRUE
  /\ _home_only = FALSE
  /\ _home_weight \in HomeWeights
  /\ _threshold = 5
  /\ pc = "scoring"
  /\ engine_log = <<"ok", "ok">>
  /\ res = <<>>
  /\ results \in SeqsUpTo(ScoreCandidates, MaxRes) \ {<<>>}
  /\ weights = <<>>
  /\ fetched = <<>>
  /\ idx = 0
  /\ exc = None
  /\ ret = NoStr
  /\ _content = Unset
  /\ calls = NoCalls
  /\ NoBatch
  /\ NoScoring
  /\ NoFind

\* a variant of BeginPage: the dict content is created once before the loop
\* and not at line 474, so it keeps the texts of the candidate before
BeginPage_keepsCache ==
  /\ InLoop
  /\ ~CurrentExcluded
  /\ _processors # None /\ params # None
  /\ sc.id = None
  /\ \E id \in Pages :
       /\ sc' = [id |-> id, done |-> 0,
                 acc |-> [w |-> InitialWeightOf(Current.link, _home_weight),
                          content |-> DictSet(sc.acc.content, None, PageOf(id).html),
                          extracted |-> <<>>, exc |-> None]]
       /\ fetched' = Append(fetched, id)
  /\ UNCHANGED <<config, pc, engine_log, res, results, weights, idx, exc, ret,
                 enginevars, batchvars, sf>>

\* lines 466-476: the page of the candidate is downloaded, w starts from the
\* home weight and content from {None: html}
BeginPage ==
  /\ InLoop
  /\ ~CurrentExcluded
  /\ _processors # None /\ params # None
  /\ sc.id = None
  /\ \E id \in Pages :
       /\ sc' = [id |-> id, done |-> 0,
                 acc |-> [w |-> InitialWeightOf(Current.link, _home_weight),
                          content |-> <<[k |-> None, v |-> PageOf(id).html]>>,
                          extracted |-> <<>>, exc |-> None]]
       /\ fetched' = Append(fetched, id)
  /\ UNCHANGED <<config, pc, engine_log, res, results, weights, idx, exc, ret,
                 enginevars, batchvars, sf>>

\* lines 492-508 for the next rule; an exception leaves get
RuleStep ==
  /\ pc = "scoring"
  /\ sc.id # None
  /\ sc.done < Len(PairsOf(_processors, params))
  /\ LET acc == ScoreRule(sc.acc, PairsOf(_processors, params)[sc.done + 1], PageOf(sc.id))
     IN  /\ sc' = [sc EXCEPT !.acc = acc, !.done = @ + 1]
         /\ IF acc.exc = None
            THEN UNCHANGED <<pc, exc>>
            ELSE pc' = "raised" /\ exc' = acc.exc
  /\ UNCHANGED <<config, engine_log, res, results, weights, fetched, idx, ret,
                 enginevars, batchvars, sf>>

\* line 515 after the last rule; the dict content stays bound until line 474
\* of the next candidate
EndPage ==
  /\ pc = "scoring"
  /\ sc.id # None
  /\ sc.done = Len(PairsOf(_processors, params))
  /\ weights' = Append(weights, sc.acc.w)
  /\ sc' = [sc EXCEPT !.id = None]
  /\ UNCHANGED <<config, pc, engine_log, res, results, fetched, idx, exc, ret,
                 enginevars, batchvars, sf>>

NextScore == BeginPage \/ RuleStep \/ EndPage

SpecScore == InitScore /\ [][NextScore]_vars

(***************************************************************************)
(* str_find_all called on its own                                          *)
(***************************************************************************)
\* the longest text and the longest query tried
MaxText == 3
MaxQuery == 2

\* the characters of the texts and of the queries: letters in both cases, a
\* space, and the full stop, which re reads as "any character"
TextChars == {"a", "B", " ", "."}

QueryChars == {"a", "b", "."}

\* str_find_all is about to be called with a text and a filtered query
InitFind ==
  /\ _processors = "proc" /\ params = "ParamsFull"
  /\ _skip_social = TRUE /\ _home_only = TRUE
  /\ _home_weight = 0 /\ _threshold = 5
  /\ pc = "engines"
  /\ engine_log = <<>>
  /\ res = <<>>
  /\ results = <<>>
  /\ weights = <<>>
  /\ fetched = <<>>
  /\ idx = 0
  /\ exc = None
  /\ ret = NoStr
  /\ _content = Unset
  /\ calls = NoCalls
  /\ NoBatch
  /\ NoScoring
  /\ \E s \in SeqsUpTo(TextChars, MaxText), s2 \in SeqsUpTo(QueryChars, MaxQuery) :
       sf = [s |-> s, s2 |-> s2, done |-> FALSE, out |-> FALSE]

\* line 115
StrFindAll ==
  /\ ~sf.done
  /\ sf' = [sf EXCEPT !.done = TRUE, !.out = (str_find_all(sf.s, sf.s2).num = 1)]
  /\ UNCHANGED <<getvars, enginevars, batchvars, sc>>

NextFind == StrFindAll

SpecFind == InitFind /\ [][NextFind]_vars

(***************************************************************************)
(* main() of crawler.py: the loop over the rows of the input file          *)
(***************************************************************************)
\* the largest values given with -s and -l, and the longest input file
MaxStart == 2
MaxLimit == 2
MaxRows == 3

\* "http://a.co/old", a website written by an earlier run
W_old == Under_a(<<"o","l","d">>)

\* a row of the input file: its attributes (by name) and its cell website,
\* which DictReader reads as '' when empty
Row(p, website) == [params |-> p, website |-> website]

Rows == {Row(p, w) : p \in ParamNames, w \in {<<>>, W_old}}

\* not v, for v a string or None
Falsy(v) == v = NoStr \/ v = <<>>

\* what u.get(query, s) can do for the row s with the UrlFinder of lines
\* 231-236 (home_weight 0.0): return None or a URL, or end with the exception
\* that scoring a downloaded page with the attributes of s raises
u_get(p) ==
  {[exc |-> None, ret |-> r] : r \in {NoStr, U_home}} \cup
  {[exc |-> ScorePageOf(id, p, 0).exc, ret |-> NoStr] :
     id \in {d \in Pages : ScorePageOf(d, p, 0).exc # None}}

\* dw.writerow(s): None is written as the empty string
writerow(s) == [s EXCEPT !.website = IF @ = NoStr THEN <<>> ELSE @]

\* main is called with the options parsed at lines 276-313 and is about to
\* read the first row; the UrlFinder u is the one of lines 231-236
InitBatch ==
  /\ _processors = "proc" /\ params = "ParamsFull"
  /\ _skip_social = TRUE /\ _home_only = TRUE
  /\ _home_weight = 0 /\ _threshold = 5
  /\ pc = "engines"
  /\ engine_log = <<>>
  /\ res = <<>>
  /\ results = <<>>
  /\ weights = <<>>
  /\ fetched = <<>>
  /\ idx = 0
  /\ exc = None
  /\ ret = NoStr
  /\ _content = Unset
  /\ calls = NoCalls
  /\ NoScoring
  /\ NoFind
  /\ start \in 0..MaxStart
  /\ limit \in 0..MaxLimit
  /\ update \in BOOLEAN
  /\ samples \in SeqsUpTo(Rows, MaxRows)
  /\ i_main = 1
  /\ fo = <<>>
  /\ finds = <<>>
  /\ bpc = "loop"

\* the row s the loop of line 256 is at, and its position in the file
RowPos == Len(fo) + 1

ThisRow == samples[RowPos]

\* line 257
brk == (limit > 0) /\ (i_main - start >= limit)

\* the condition of line 259
ToFind == ~brk /\ i_main >= start /\ (Falsy(ThisRow.website) \/ update)

\* lines 257-271 for a row that is passed to u.get; an exception of u.get
\* leaves main, which has no handler
RowFind ==
  /\ bpc = "loop"
  /\ RowPos <= Len(samples)
  /\ ToFind
  /\ finds' = Append(finds, RowPos)
  /\ \E o \in u_get(ThisRow.params) :
       IF o.exc = None
       THEN /\ fo' = Append(fo, writerow([ThisRow EXCEPT !.website = o.ret]))
            /\ i_main' = i_main + 1
            /\ UNCHANGED bpc
       ELSE /\ bpc' = "raised"
            /\ UNCHANGED <<fo, i_main>>
  /\ UNCHANGED <<start, limit, update, samples, getvars, enginevars, sc, sf>>

\* lines 257-271 for a row that is not passed to u.get
RowCopy ==
  /\ bpc = "loop"
  /\ RowPos <= Len(samples)
  /\ ~ToFind
  /\ fo' = Append(fo, writerow(ThisRow))
  /\ i_main' = i_main + 1
  /\ UNCHANGED <<start, limit, update, samples, finds, bpc, getvars, enginevars, sc, sf>>

\* line 273, after the last row
Close ==
  /\ bpc = "loop"
  /\ RowPos > Len(samples)
  /\ bpc' = "closed"
  /\ UNCHANGED <<start, limit, update, samples, i_main, fo, finds, getvars, enginevars, sc, sf>>

NextBatch == RowFind \/ RowCopy \/ Close

SpecBatch == InitBatch /\ [][NextBatch]_vars

(***************************************************************************)
(* The claims                                                              *)
(***************************************************************************)
\* the entries of rs at the indices of keep, in order
AtIndices(rs, keep) ==
  [p \in 1..Cardinality(keep) |->
     rs[CHOOSE i \in keep : Cardinality({j \in keep : j < i}) = p - 1]]

\* rs without the entries whose URL occurs earlier in rs
FirstSeen(rs) ==
  AtIndices(rs, {i \in DOMAIN rs : \A j \in 1..(i - 1) : rs[j].link # rs[i].link})

\* a step of get that queries one more engine
EngineQueried == Len(engine_log') = Len(engine_log) + 1

\* the list that engine contributed
Contributed == IF engine_log'[Len(engine_log')] = "ok" THEN res' ELSE <<>>

\* C1: after each engine is queried the candidate list holds every distinct URL
\* returned so far exactly once, at the place of its first occurrence; two
\* results with the same URL and different titles are one candidate.
C1_MergedByUrl ==
  [][EngineQueried => results' = FirstSeen(results \o Contributed)]_vars

\* C2: under every interleaving, a call of get_results on a shared engine
\* returns what it would return alone against the response to its own request.
C2_CallsIsolated ==
  \A t \in Callers :
    calls[t].pc = "done" => calls[t].out = get_results(SharedEngine, calls[t].resp)

\* max(ws) for a list that is not empty
MaxWeight(ws) == CHOOSE m \in Range(ws) : \A x \in Range(ws) : x <= m

\* the lowest index whose weight is the maximum
FirstMax(ws) ==
  CHOOSE i \in DOMAIN ws :
    ws[i] = MaxWeight(ws) /\ \A j \in 1..(i - 1) : ws[j] # MaxWeight(ws)

C4_FirstOfMaximal ==
  (pc = "done" /\ ret # NoStr) =>
    /\ idx = FirstMax(weights)
    /\ ret = results[FirstMax(weights)].link

\* get has returned the first of two candidates with different URLs that tie
\* at the maximum
C4_Witness ==
  /\ pc = "done"
  /\ ret # NoStr
  /\ \E i, j \in DOMAIN weights :
       /\ i < j
       /\ weights[i] = MaxWeight(weights)
       /\ weights[j] = MaxWeight(weights)
       /\ results[i].link # results[j].link
       /\ ret = results[i].link

\* what an engine answers when its retrieval fails
FailureKinds == {"ConnectionError", "JSONDecodeError", "malformed"}

\* C5: a candidate whose download fails with ConnectionError gets the weight -1
\* whatever its weight as a home page was, the failure does not leave get, the
\* loop goes on with the next candidate, and when get returns every candidate,
\* the later ones included, has its weight.
C5_FetchFailure ==
  /\ \A i \in DOMAIN fetched :
       fetched[i] = "ConnectionError" =>
         /\ i \in DOMAIN weights
         /\ weights[i] = 0 - Unit
         /\ (pc = "scoring" /\ i < Len(results)) => Len(fetched) = Len(weights)
  /\ pc = "raised" => (exc # "ConnectionError" /\ fetched[Len(fetched)] # "ConnectionError")
  /\ pc = "done" => Len(weights) = Len(results)

\* get has returned after the download of a home page, with a home weight of
\* 1.0, failed and a later candidate was downloaded and scored
C5_Witness ==
  /\ pc = "done"
  /\ _home_weight = Unit
  /\ \E i, j \in DOMAIN fetched :
       /\ i < j
       /\ fetched[i] = "ConnectionError"
       /\ is_home(results[i].link)
       /\ weights[i] = 0 - Unit
       /\ fetched[j] \in Pages
       /\ weights[j] >= 0

\* C6: an engine whose retrieval fails adds nothing to the candidates and its
\* failure does not leave get; every engine is still queried, what the others
\* return is merged, and the scoring loop starts with the merged list.
C6_BackendFailureContained ==
  [][/\ EngineQueried =>
          /\ pc' = "engines" /\ exc' = None
          /\ engine_log'[Len(engine_log')] \in FailureKinds => results' = results
          /\ \A r \in Range(Contributed) : r \in Range(results')
          /\ SubSeq(results', 1, Len(results)) = results
          /\ \A k \in DOMAIN results' :
               results'[k] \in Range(results) \cup Range(Contributed)
     /\ (pc = "engines" /\ pc' # "engines") =>
          /\ pc' = "scoring"
          /\ Len(engine_log) = Len(_engines)
          /\ results' = results
     /\ pc' = "done" => Len(weights') = Len(results')]_vars

\* get has returned after its first engine gave a malformed answer: the
\* candidates of the second were merged and every one has its weight
C6_Witness ==
  /\ pc = "done"
  /\ engine_log[1] = "malformed"
  /\ engine_log[2] = "ok"
  /\ results # <<>>
  /\ Len(weights) = Len(results)

\* C7: no match function that divides by the number of words is called with an
\* empty list of words, so the division by zero does not leave get.
C7_NoEmptyWordList == exc # "ZeroDivisionError"

\* the examinations that download the page
IsFetch(f) == f \in Pages \cup {"ConnectionError"}

\* C8: in a call of get that is over, every candidate that passes the pre-check
\* was downloaded once, no excluded candidate was downloaded, and no URL was
\* downloaded more than once.
C8_OneFetchPerCandidate ==
  pc \in {"done", "raised"} =>
    /\ \A i \in DOMAIN results :
         IF ExcludedOf(results[i].link, _skip_social, _home_only)
         THEN i \in DOMAIN fetched => ~IsFetch(fetched[i])
         ELSE i \in DOMAIN fetched /\ IsFetch(fetched[i])
    /\ \A i, j \in DOMAIN fetched :
         (i # j /\ IsFetch(fetched[i]) /\ IsFetch(fetched[j]))
           => results[i].link # results[j].link

\* the weight the examination logged for candidate i gives that candidate
WeightFor(i) ==
  LET link == results[i].link
      w == InitialWeightOf(link, _home_weight)
  IN  CASE fetched[i] = "excluded" -> 0 - Unit
        [] fetched[i] = "ConnectionError" -> 0 - Unit
        [] fetched[i] = "nofetch" -> w
        [] OTHER -> ScorePageOf(fetched[i], params, w).w

\* the loop of line 449 has run to its end
LoopComplete == pc = "done" \/ (pc = "scoring" /\ Len(weights) = Len(results))

\* C10: when the scoring loop is complete there is one weight for each
\* candidate, weights[i] being that of candidate i, and the index of the URL
\* returned has the maximal weight, which is not below the threshold.
C10_WeightsAligned ==
  LoopComplete =>
    /\ Len(weights) = Len(results)
    /\ Len(fetched) = Len(results)
    /\ \A i \in DOMAIN results : weights[i] = WeightFor(i)
    /\ (pc = "done" /\ ret # NoStr) =>
         /\ idx \in DOMAIN weights
         /\ ret = results[idx].link
         /\ weights[idx] = MaxWeight(weights)
         /\ weights[idx] >= _threshold

\* get has returned the second of two candidates, whose weight is the larger
C10_Witness ==
  /\ pc = "done"
  /\ Len(results) = 2
  /\ idx = 2
  /\ weights[1] < weights[2]
  /\ weights[1] >= _threshold
  /\ ret = results[2].link

\* link ends in ext, whatever the case of its letters
EndsWithNoCase(link, ext) ==
  Len(link) >= Len(ext) /\ Lower(SubSeq(link, Len(link) - Len(ext) + 1, Len(link))) = ext

\* the URL ends in a blocked extension
EndsInBlockedExt(link) == \E ext \in _exclude_ext : EndsWithNoCase(link, ext)

\* the URL is written with the scheme http or https and its host has a name of
\* the domain list, written as in the list, as a label before its last label,
\* which has two characters or more
OnBlockedDomain(link) ==
  LET labels == SplitOn(urlsplit(link).netloc, {"."})
  IN  /\ (StartsAt(Http, link, 1) \/ StartsAt(Https, link, 1))
      /\ Len(labels[Len(labels)]) >= 2
      /\ \E k \in 1..(Len(labels) - 1) : labels[k] \in _exclude_dom

\* the URL of the root of the site of link
RootOf(link) ==
  LET p == urlsplit(link)
  IN  p.scheme \o <<":", "/", "/">> \o p.netloc \o <<"/">>

\* the candidates the claim says the pre-check excludes
MustExclude(link) ==
  \/ EndsInBlockedExt(link)
  \/ (_skip_social /\ OnBlockedDomain(link))
  \/ (_home_only /\ link # RootOf(link))

\* C9: a candidate whose URL ends in a blocked extension (in any case), or is
\* on a site of the domain list while skip_social is set, or is not the root of
\* its site while home_only is set, is given the weight -1 by the pre-check,
\* without a download, whatever the rule table and the attributes are.
C9_PreCheck ==
  /\ \A i \in DOMAIN fetched :
       MustExclude(results[i].link) =>
         /\ fetched[i] = "excluded"
         /\ i \in DOMAIN weights
         /\ weights[i] = 0 - Unit
  /\ pc = "done" => Len(fetched) = Len(results)

\* the pre-check has excluded a file whose extension is written in capitals,
\* with a rule table and attributes given and neither policy set
C9_Witness ==
  /\ results[1].link = Under_a(<<"f",".","P","D","F">>)
  /\ ~_home_only /\ ~_skip_social
  /\ _processors = "proc" /\ params = "ParamsFull"
  /\ fetched = <<"excluded">>
  /\ weights = <<0 - Unit>>

\* the positions S+1 .. S+L of the help text of -s and -l (all above S when
\* -l is not given)
InWindow(n) == n > start /\ (limit = 0 \/ n <= start + limit)

\* not s.get('website') or update, for the row at position n
Wanted(n) == Falsy(samples[n].website) \/ update

\* C11: -s S skips exactly the first S rows and -l L limits the rows considered
\* to L: a row is passed to find only at a position in S+1 .. S+L, and every row
\* handled at such a position whose website is empty (or with -u) is passed to
\* find
C11_StartLimit ==
  /\ \A n \in Range(finds) : InWindow(n)
  /\ \A n \in 1..Len(fo) : (InWindow(n) /\ Wanted(n)) => n \in Range(finds)

\* C12: without -u a row whose website is filled is not passed to find and is
\* written with the website it had; every row is written once, in input order,
\* also after the limit is reached: when main has ended the output holds one
\* row for each input row
C12_FilledKeptAllWritten ==
  /\ \A n \in 1..Len(fo) :
       (~update /\ ~Falsy(samples[n].website)) =>
         (n \notin Range(finds) /\ fo[n].website = samples[n].website)
  /\ Len(fo) <= Len(samples)
  /\ \A n \in 1..Len(fo) : fo[n].params = samples[n].params
  /\ (bpc # "loop" => Len(fo) = Len(samples))

\* the (field, rule) positions of the rule table of main()
RuleIndex == UNION {{<<f, n>> : n \in DOMAIN proc_main[f].v} : f \in DOMAIN proc_main}

\* matchFn(selector text, filtered value) * rule weight for the rule at
\* position x, the text being taken from the page itself
Term(x, row, page) ==
  LET rule == proc_main[x[1]].v[x[2]]
      m == ApplyMatch(rule.str_p, strip_accents(page[rule.content_p]),
                      ApplyFilter(rule.str_f, DictGet(row, proc_main[x[1]].k)))
  IN  (m.num * rule.weight) \div m.den

RECURSIVE SumTerms(_, _, _)
SumTerms(X, row, page) ==
  IF X = {} THEN 0
  ELSE LET x == CHOOSE y \in X : TRUE
       IN  Term(x, row, page) + SumTerms(X \ {x}, row, page)

\* the home bonus plus the sum over the rules of the fields the row has
ExpectedWeight(link, home_weight, row, page) ==
  (IF is_home(link) THEN home_weight ELSE 0)
    + SumTerms({x \in RuleIndex : HasKey(row, proc_main[x[1]].k)}, row, page)

\* C13: the weight of a candidate whose page was downloaded and scored is the
\* home bonus plus the sum, over the fields the row and the rule table share
\* and over the rules of each, of match * weight, whatever the order of the
\* rules within a field
C13_WeightIsSum ==
  \A n \in 1..Len(weights) :
    fetched[n] \in Pages =>
      weights[n] = ExpectedWeight(results[n].link, _home_weight, ParamsOf(params),
                                  PageOf(fetched[n]))

\* a home page scored with the rules in the opposite order, with a home bonus and
\* rules of two fields matching, and a page scored for a row without a name
C13_Witness ==
  /\ _processors = "proc_rev"
  /\ _home_weight = Unit
  /\ \E n \in 1..Len(weights) :
       /\ fetched[n] = "pgMatch"
       /\ is_home(results[n].link)
       /\ weights[n] > Unit
       /\ \/ params = "ParamsFull" /\ weights[n] > Unit + 300
          \/ params = "ParamsCity"

\* the selectors of the rules applied so far to the page being scored
SelectorsUsed ==
  {PairsOf(_processors, params)[j].rule.content_p : j \in 1..sc.done}

\* C14: while a candidate is scored, no selector is extracted twice, every
\* selector a rule has used is in the cache, and every text in the cache (the
\* empty string too) is the text of that selector on the page of this
\* candidate, never of a page scored before
C14_CachePerCandidate ==
  sc.id # None =>
    /\ \A a, b \in DOMAIN sc.acc.extracted :
         sc.acc.extracted[a] = sc.acc.extracted[b] => a = b
    /\ Range(sc.acc.extracted) = SelectorsUsed
    /\ \A n \in DOMAIN sc.acc.content :
         LET e == sc.acc.content[n]
         IN  IF e.k = None THEN e.v = PageOf(sc.id).html
             ELSE /\ e.k \in Range(sc.acc.extracted)
                  /\ e.v = strip_accents(PageOf(sc.id)[e.k])

\* the second candidate serves another page than the first, a selector of that
\* page gave the empty string and two rules have used it
C14_Witness ==
  /\ sc.id # None
  /\ Len(weights) >= 1
  /\ fetched[1] # sc.id
  /\ \E a, b \in 1..sc.done :
       /\ a < b
       /\ PairsOf(_processors, params)[a].rule.content_p
            = PairsOf(_processors, params)[b].rule.content_p
       /\ DictGet(sc.acc.content, PairsOf(_processors, params)[a].rule.content_p) = <<>>
       /\ strip_accents(PageOf(fetched[1])[PairsOf(_processors, params)[a].rule.content_p]) # <<>>

\* the characters of q are those of s from position n on, whatever their case
LiteralAt(q, s, n) ==
  /\ n + Len(q) - 1 <= Len(s)
  /\ \A k \in DOMAIN q : LowerChar(q[k]) = LowerChar(s[n + k - 1])

\* q occurs in s as a phrase that is not part of a longer word
WholeWordLiteral(q, s) ==
  \E n \in 1..Len(s) :
    /\ LiteralAt(q, s, n)
    /\ (n = 1 \/ ~IsWordChar(s[n - 1]))
    /\ (n + Len(q) > Len(s) \/ ~IsWordChar(s[n + Len(q)]))

\* C15: str_find_all returns true exactly when the filtered query occurs in the
\* text as a case-insensitive whole-word literal phrase
C15_WholeWordLiteral ==
  sf.done => (sf.out <=> (sf.s2 # <<>> /\ WholeWordLiteral(sf.s2, sf.s)))

\* C16: get never returns the URL of a candidate whose weight is -1 (excluded by
\* the pre-check, or not downloaded), whatever the threshold
C16_NeverReturnsExcluded ==
  (pc = "done" /\ ret # NoStr) => weights[idx] # 0 - Unit

====
